---- MODULE Spec2Model ----
(***************************************************************************)
(* pr-utils: the create-staging-pr command (createStagingPR).              *)
(* Strings are sequences of one-character strings, so that split, trim,    *)
(* replace and startsWith are computed as JavaScript computes them.  A few *)
(* fixed chunks that contain no separator of interest ("staging-pr-",      *)
(* "origin/", "remotes/origin/", a commit hash, a date text) are single    *)
(* elements.                                                               *)
(***************************************************************************)
EXTENDS Integers, Sequences, FiniteSets, TLC

\* ---------------------------------------------------------------- bounds
\* longest per-branch log the repository answers with
MaxLog == 2

\* ------------------------------------------------------- string helpers
None == <<>>

IsSpace(c) == c \in {" ", "\n"}

RECURSIVE TrimStart(_)
TrimStart(s) ==
  IF s = <<>> THEN <<>>
  ELSE IF IsSpace(Head(s)) THEN TrimStart(Tail(s)) ELSE s

RECURSIVE TrimEnd(_)
TrimEnd(s) ==
  IF s = <<>> THEN <<>>
  ELSE IF IsSpace(s[Len(s)]) THEN TrimEnd(SubSeq(s, 1, Len(s) - 1)) ELSE s

\* String.prototype.trim
Trim(s) == TrimEnd(TrimStart(s))

RECURSIVE SplitRec(_, _, _)
SplitRec(s, sep, cur) ==
  IF s = <<>> THEN <<cur>>
  ELSE IF Head(s) = sep THEN <<cur>> \o SplitRec(Tail(s), sep, <<>>)
  ELSE SplitRec(Tail(s), sep, Append(cur, Head(s)))

\* String.prototype.split with a one-character separator
Split(s, sep) == SplitRec(s, sep, <<>>)

RECURSIVE ReplaceFirst(_, _, _)
\* String.prototype.replace with a string pattern: the FIRST occurrence only
ReplaceFirst(s, ch, rep) ==
  IF s = <<>> THEN <<>>
  ELSE IF Head(s) = ch THEN rep \o Tail(s)
  ELSE <<Head(s)>> \o ReplaceFirst(Tail(s), ch, rep)

\* String.prototype.startsWith
StartsWith(s, p) == Len(p) <= Len(s) /\ SubSeq(s, 1, Len(p)) = p

\* Array.prototype.includes
Includes(list, x) == \E i \in 1..Len(list) : list[i] = x

RECURSIVE MapTrim(_)
MapTrim(ss) == IF ss = <<>> THEN <<>> ELSE <<Trim(Head(ss))>> \o MapTrim(Tail(ss))

RECURSIVE Reverse(_)
\* Array.prototype.reverse applied to a copy
Reverse(s) == IF s = <<>> THEN <<>> ELSE Append(Reverse(Tail(s)), Head(s))

Range(s) == {s[i] : i \in 1..Len(s)}

\* ------------------------------------------------------ the environment
\* branch names of the repository the command runs in
BrS   == <<"s">>
BrD   == <<"d">>
BrF   == <<"f">>
BrFA  == <<"f", "/", "a">>
BrGAB == <<"g", "/", "a", "/", "b">>
BrX   == <<"x">>

\* remote branches in the order git enumerates them, and the local ones
RemoteBranches == <<BrD, BrF, BrFA, BrGAB, BrS>>
LocalBranches == <<BrF, BrS>>

\* the commits of the repository: subject, author, authored instant
Hashes == {"h1", "h2", "h3"}
CommitInfo ==
  [h \in Hashes |->
     CASE h = "h1" -> [message |-> <<"m">>, author_name |-> <<"a">>, ts |-> 2]
       [] h = "h2" -> [message |-> <<"n">>, author_name |-> <<"a">>, ts |-> 1]
       [] h = "h3" -> [message |-> <<"p", "|", "q">>, author_name |-> <<"a">>, ts |-> 3]]

\* %ad --date=iso of a commit, one chunk; DateText[t] is the text of instant t
DateText(t) == CASE t = 1 -> "t1" [] t = 2 -> "t2" [] t = 3 -> "t3" [] OTHER -> "t0"

\* getTime() of new Date(text): the instant, or NaN for a text that is no date
NaN == -1
GetTime(text) ==
  IF text = <<>> THEN 0
  ELSE IF text = <<"t1">> THEN 1
  ELSE IF text = <<"t2">> THEN 2
  ELSE IF text = <<"t3">> THEN 3
  ELSE NaN

\* ------------------------------------------------- git log and its parse
\* one line of `git log --format=%H|%s|%an|%ad|%d --date=iso` for commit h
FormatLine(h) ==
  <<h, "|">> \o CommitInfo[h].message \o <<"|">> \o CommitInfo[h].author_name
    \o <<"|", DateText(CommitInfo[h].ts), "|">>

RECURSIVE RawOutput(_)
\* what git.raw answers for a log of the commits hs: one line per commit
RawOutput(hs) ==
  IF hs = <<>> THEN <<>> ELSE FormatLine(Head(hs)) \o <<"\n">> \o RawOutput(Tail(hs))

\* a destructured element of line.split('|'), '' when it is undefined
Field(fields, i) == IF i <= Len(fields) THEN fields[i] ELSE <<>>

\* the record built from one line of the raw output
ParseLine(line, branch) ==
  LET fields == Split(line, "|") IN
  [hash |-> Field(fields, 1), message |-> Field(fields, 2),
   author_name |-> Field(fields, 3), date |-> Field(fields, 4),
   refs |-> Field(fields, 5), branch |-> branch]

RECURSIVE ParseLines(_, _)
ParseLines(lines, branch) ==
  IF lines = <<>> THEN <<>>
  ELSE IF Trim(Head(lines)) = <<>> THEN ParseLines(Tail(lines), branch)
  ELSE <<ParseLine(Head(lines), branch)>> \o ParseLines(Tail(lines), branch)

\* rawOutput.trim().split('\n').filter(...).map(...)
ParseRaw(raw, branch) == ParseLines(Split(Trim(raw), "\n"), branch)

RECURSIVE LogAll(_, _)
\* logResult.all of git.log({from, to}), each record tagged with the branch
LogAll(hs, branch) ==
  IF hs = <<>> THEN <<>>
  ELSE <<[hash |-> <<Head(hs)>>, message |-> CommitInfo[Head(hs)].message,
          author_name |-> CommitInfo[Head(hs)].author_name,
          date |-> <<DateText(CommitInfo[Head(hs)].ts)>>,
          refs |-> <<>>, branch |-> branch]>> \o LogAll(Tail(hs), branch)

\* additionalArgs.length > 0
HasAdditionalArgs(o) == (~o.includeMerges) \/ o.firstParent

\* the commits one branch contributes, by either code path
BranchCommits(o, hs, branch) ==
  IF HasAdditionalArgs(o) THEN ParseRaw(RawOutput(hs), branch) ELSE LogAll(hs, branch)

RECURSIVE AddAll(_, _)
AddAll(acc, commits) ==
  IF commits = <<>> THEN acc ELSE AddAll(Append(acc, Head(commits)), Tail(commits))

RECURSIVE AddUnique(_, _)
\* the "Add unique commits" loop: a commit is pushed unless its hash was seen
AddUnique(acc, commits) ==
  IF commits = <<>> THEN acc
  ELSE IF \E i \in 1..Len(acc) : acc[i].hash = Head(commits).hash
       THEN AddUnique(acc, Tail(commits))
       ELSE AddUnique(Append(acc, Head(commits)), Tail(commits))

\* ------------------------------------------------------------- the sort
\* the comparator of allCommits.sort as the sort reads it: a NaN result
\* (a date text that is no date) counts as +0
Compare(a, b) ==
  LET x == GetTime(a.date)
      y == GetTime(b.date)
  IN IF x = NaN \/ y = NaN THEN 0 ELSE x - y

\* the comparator orders the elements of s consistently
Consistent(s) ==
  \A i, j, k \in 1..Len(s) :
    /\ (Compare(s[i], s[j]) = 0 /\ Compare(s[j], s[k]) = 0) => Compare(s[i], s[k]) = 0
    /\ (Compare(s[i], s[j]) < 0 /\ Compare(s[j], s[k]) < 0) => Compare(s[i], s[k]) < 0

RECURSIVE InsertSorted(_, _)
\* x goes after the last element that does not compare greater than x
InsertSorted(sorted, x) ==
  IF sorted = <<>> THEN <<x>>
  ELSE IF Compare(sorted[Len(sorted)], x) <= 0 THEN Append(sorted, x)
  ELSE Append(InsertSorted(SubSeq(sorted, 1, Len(sorted) - 1), x), sorted[Len(sorted)])

RECURSIVE StableSortRec(_, _)
StableSortRec(sorted, rest) ==
  IF rest = <<>> THEN sorted
  ELSE StableSortRec(InsertSorted(sorted, Head(rest)), Tail(rest))

StableSort(s) == StableSortRec(<<>>, s)

Orderings(s) ==
  {[i \in 1..Len(s) |-> s[p[i]]] :
     p \in {q \in [1..Len(s) -> 1..Len(s)] : \A i, j \in 1..Len(s) : q[i] = q[j] => i = j}}

\* Array.prototype.sort: stable for a consistent comparator; for an
\* inconsistent one the order is implementation-defined
SortOutcomes(s) == IF Consistent(s) THEN {StableSort(s)} ELSE Orderings(s)

\* ------------------------------------------------- resolving the branches
\* options.branches.split(',').map(b => b.trim())
ManualBranches(o) == MapTrim(Split(o.branches, ","))

\* options.featureBranch after the "manual branch specification" block:
\* an option the caller supplied is kept, else the first entry of the list,
\* else the branch currently checked out
ResolveFeatureBranch(o, current) ==
  IF o.branches # None
  THEN IF o.featureBranch = None THEN ManualBranches(o)[1] ELSE o.featureBranch
  ELSE IF o.featureBranch = None THEN current ELSE o.featureBranch

\* the first entry of the list stands in for the feature branch whenever a
\* list is supplied
FirstOfListAlways(o, current) ==
  IF o.branches # None THEN ManualBranches(o)[1]
  ELSE IF o.featureBranch = None THEN current ELSE o.featureBranch

OnlyStagingGuard(o) == o.featureBranch = o.stagingBranch

\* the equality guard on the feature branch
GuardFails(o) ==
  o.featureBranch = o.stagingBranch \/ o.featureBranch = o.developBranch

RECURSIVE WithPrefix(_, _)
WithPrefix(prefix, names) ==
  IF names = <<>> THEN <<>>
  ELSE <<(<<prefix>> \o Head(names))>> \o WithPrefix(prefix, Tail(names))

\* branches.all of git.branch(['-a'])
AllBranchList == LocalBranches \o WithPrefix("remotes/origin/", RemoteBranches)

\* allBranches.all of git.branch(['-r'])
RemoteBranchList == WithPrefix("origin/", RemoteBranches)

\* hasFeatureBranch, hasStagingBranch, hasDevelopBranch
HasBranch(name) ==
  Includes(AllBranchList, name) \/ Includes(AllBranchList, <<"remotes/origin/">> \o name)

\* s occurs in branch at position i
OccursAt(branch, s, i) ==
  i + Len(s) - 1 <= Len(branch) /\ SubSeq(branch, i, i + Len(s) - 1) = s

\* new RegExp(pattern.replace('*', '.*')).test(branch), for a pattern whose
\* only regular-expression character is at most one '*'
RegExpTest(pattern, branch) ==
  IF ~Includes(pattern, "*")
  THEN \E i \in 1..(Len(branch) + 1) : OccursAt(branch, pattern, i)
  ELSE LET k == CHOOSE n \in 1..Len(pattern) :
                  pattern[n] = "*" /\ \A m \in 1..(n - 1) : pattern[m] # "*"
           pre == SubSeq(pattern, 1, k - 1)
           post == SubSeq(pattern, k + 1, Len(pattern))
       IN \E i \in 1..(Len(branch) + 1) :
            /\ OccursAt(branch, pre, i)
            /\ \E j \in (i + Len(pre))..(Len(branch) + 1) : OccursAt(branch, post, j)

\* the filter of sub-branch discovery
IsSubBranch(o, pattern, branch) ==
  /\ branch # o.featureBranch
  /\ \/ StartsWith(branch, ReplaceFirst(pattern, "*", <<>>))
     \/ RegExpTest(pattern, branch)

RECURSIVE FilterSubBranches(_, _, _)
FilterSubBranches(o, pattern, list) ==
  IF list = <<>> THEN <<>>
  ELSE IF /\ StartsWith(Head(list), <<"origin/">>)
          /\ IsSubBranch(o, pattern, ReplaceFirst(Head(list), "origin/", <<>>))
       THEN <<ReplaceFirst(Head(list), "origin/", <<>>)>>
              \o FilterSubBranches(o, pattern, Tail(list))
       ELSE FilterSubBranches(o, pattern, Tail(list))

\* subBranches
SubBranches(o) ==
  IF o.includeSubBranches
  THEN FilterSubBranches(o,
         IF o.subBranchPattern # None THEN o.subBranchPattern
         ELSE o.featureBranch \o <<"*">>,
         RemoteBranchList)
  ELSE <<>>

\* branchesToProcess
BranchesToProcess(o) ==
  IF o.branches # None THEN ManualBranches(o) ELSE <<o.featureBranch>> \o SubBranches(o)

\* ------------------------------------------------------------ publishing
RECURSIVE Digits(_)
\* the decimal text of a number
Digits(n) ==
  LET d == <<"0", "1", "2", "3", "4", "5", "6", "7", "8", "9">>[(n % 10) + 1]
  IN IF n < 10 THEN <<d>> ELSE Append(Digits(n \div 10), d)

\* stagingPRBranch
StagingPRBranch(o, now) ==
  <<"staging-pr-">> \o ReplaceFirst(o.featureBranch, "/", <<"-">>) \o <<"-">> \o Digits(now)

\* a character of the remote URL text that [^.] rejects
HasDot(e) == e \in {".", "github.com", "gitlab.com"}

\* remoteUrl.value?.match(/github\.com[:/]([^/]+)\/([^.]+)/) finds a match
UrlMatches(url) ==
  \E i \in 1..Len(url) :
    /\ url[i] = "github.com"
    /\ i + 1 <= Len(url) /\ url[i + 1] \in {":", "/"}
    /\ \E j \in (i + 3)..Len(url) :
         /\ \A m \in (i + 2)..(j - 1) : url[m] # "/"
         /\ url[j] = "/"
         /\ j + 1 <= Len(url) /\ ~HasDot(url[j + 1])

\* branchInfo of the listing and of the pull-request body
BranchInfo(o, commit) ==
  IF commit.branch # <<>> /\ commit.branch # o.featureBranch THEN commit.branch ELSE <<>>

RECURSIVE DisplayLines(_, _)
\* the lines printed for a list of commits
DisplayLines(o, commits) ==
  IF commits = <<>> THEN <<>>
  ELSE <<[hash |-> Head(commits).hash, message |-> Head(commits).message,
          branchInfo |-> BranchInfo(o, Head(commits))]>> \o DisplayLines(o, Tail(commits))

\* --------------------------------------------------------------- inputs
\* option values the command is started with (None: the option is absent)
FeatureOptions == {None, BrF, BrGAB, BrS, BrD, BrX}
BranchesOptions ==
  {None, <<"f", ",", " ", "f", "/", "a">>, <<"s", ",", "f">>,
   <<"f", "/", "a", ",", "x", ",", "f">>, <<"f", ",", "f">>}
PatternOptions == {None, <<"f", "/", "*">>, <<"g", "*">>, <<"a", "*">>}

\* a pattern is read only when sub-branch discovery is on and no list is
\* given; --first-parent is tried without --include-merges, on dry runs; the
\* pattern that finds two sub-branches and the list that names a branch twice
\* are tried on dry runs of the git.log path
Options ==
  {o \in [branches : BranchesOptions, featureBranch : FeatureOptions,
          stagingBranch : {BrS}, developBranch : {BrD},
          dryRun : BOOLEAN, includeMerges : BOOLEAN, firstParent : BOOLEAN,
          includeSubBranches : BOOLEAN, subBranchPattern : PatternOptions] :
     /\ (o.subBranchPattern # None) => (o.includeSubBranches /\ o.branches = None)
     /\ o.firstParent => (~o.includeMerges /\ o.dryRun)
     /\ (o.subBranchPattern = <<"a", "*">> \/ o.branches = <<"f", ",", "f">>)
          => (o.dryRun /\ o.includeMerges)}

\* what git.branch() may report as the current branch
CurrentBranches == {BrF, BrS}

RECURSIVE SeqsUpTo(_)
\* the sequences of distinct hashes of length at most n
SeqsUpTo(n) ==
  IF n = 0 THEN {<<>>}
  ELSE LET shorter == SeqsUpTo(n - 1)
       IN shorter \cup {Append(s, h) : s \in {t \in shorter : Len(t) = n - 1},
                                        h \in Hashes} 

LogChoices == {s \in SeqsUpTo(MaxLog) : \A i, j \in 1..Len(s) : s[i] = s[j] => i = j}

\* the answers of the log of origin/staging..origin/branch: it throws for a
\* ref that does not exist, and is empty for the staging branch itself
LogResults(o, branch) ==
  IF ~Includes(RemoteBranches, branch) THEN {[ok |-> FALSE, hashes |-> <<>>]}
  ELSE IF branch = o.stagingBranch THEN {[ok |-> TRUE, hashes |-> <<>>]}
  ELSE {[ok |-> TRUE, hashes |-> hs] : hs \in LogChoices}
         \cup {[ok |-> FALSE, hashes |-> <<>>]}

\* values Date.now() may read
NowValues == {7, 12}

\* process.env.GITHUB_TOKEN
Tokens == {None, <<"k">>}

\* remote.origin.url (None: not configured)
RemoteUrls ==
  {None,
   <<"https:", "/", "/", "github.com", "/", "o", "/", "r", ".", "git">>,
   <<"git@", "github.com", ":", "o", "/", "r">>,
   <<"https:", "/", "/", "gitlab.com", "/", "o", "/", "r">>,
   <<"https:", "/", "/", "github.com", "/", "o">>}

\* ---------------------------------------------------------------- state
VARIABLES
  opt,               \* options
  pc,                \* the statement createStagingPR is at
  exitCode,          \* exit code of the process once pc = "done"
  err,               \* which failure message was printed, "" for none
  calls,             \* the git and hosting-API calls made so far, in order
  branchesToProcess,
  idx,               \* position of the collection loop
  logs,              \* what each log call of the collection loop answered
  warnings,          \* branches a warning was printed for
  allCommits,
  displayed,         \* the "Commits to be cherry-picked" listing
  stagingPRBranch,
  pickIdx,           \* position of the cherry-pick loop
  failedCommit,      \* the hash named by the cherry-pick failure message
  githubToken,       \* process.env.GITHUB_TOKEN as read after the push
  remoteUrl,         \* remote.origin.url as read
  manual             \* which manual instructions were printed, "" for none

vars == <<opt, pc, exitCode, err, calls, branchesToProcess, idx, logs, warnings,
          allCommits, displayed, stagingPRBranch, pickIdx, failedCommit,
          githubToken, remoteUrl, manual>>

\* one call of the git client or of the hosting API, and whether it returned
Call(op, arg, ok) == [op |-> op, arg |-> arg, ok |-> ok]

Init ==
  /\ opt \in Options
  /\ pc = "start"
  /\ exitCode = 0
  /\ err = ""
  /\ calls = <<>>
  /\ branchesToProcess = <<>>
  /\ idx = 1
  /\ logs = <<>>
  /\ warnings = <<>>
  /\ allCommits = <<>>
  /\ displayed = <<>>
  /\ stagingPRBranch = <<>>
  /\ pickIdx = 1
  /\ failedCommit = <<>>
  /\ githubToken = None
  /\ remoteUrl = None
  /\ manual = ""

\* process.exit(code) after the message kind was printed
Exit(code, kind) ==
  /\ pc' = "done"
  /\ exitCode' = code
  /\ err' = kind

\* the outer catch: spinner.fail(`Error: ...`) and process.exit(1)
Throw == Exit(1, "exception")

\* -------------------------------------------------------------- actions
\* lines 72-97: the feature branch is settled and checked against staging
\* and develop
Start ==
  /\ pc = "start"
  /\ \E current \in CurrentBranches :
       LET asksGit == opt.branches = None /\ opt.featureBranch = None
           o == [opt EXCEPT !.featureBranch = ResolveFeatureBranch(opt, current)]
       IN /\ opt' = o
          /\ calls' = IF asksGit THEN Append(calls, Call("branch", <<>>, TRUE)) ELSE calls
          /\ IF GuardFails(o) THEN Exit(1, "config")
             ELSE pc' = "status" /\ UNCHANGED <<exitCode, err>>
  /\ UNCHANGED <<branchesToProcess, idx, logs, warnings, allCommits, displayed,
                 stagingPRBranch, pickIdx, manual,
                 failedCommit, githubToken, remoteUrl>>

\* lines 99-109: the working directory has to be clean
CheckStatus ==
  /\ pc = "status"
  /\ calls' = Append(calls, Call("status", <<>>, TRUE))
  /\ \E clean \in BOOLEAN :
       IF clean THEN pc' = "fetch" /\ UNCHANGED <<exitCode, err>>
       ELSE Exit(1, "dirty")
  /\ UNCHANGED <<opt, branchesToProcess, idx, logs, warnings, allCommits, displayed,
                 stagingPRBranch, pickIdx, manual,
                 failedCommit, githubToken, remoteUrl>>

\* lines 111-113: git fetch
Fetch ==
  /\ pc = "fetch"
  /\ \E ok \in BOOLEAN :
       /\ calls' = Append(calls, Call("fetch", <<>>, ok))
       /\ IF ok THEN pc' = "exists" /\ UNCHANGED <<exitCode, err>>
          ELSE Throw
  /\ UNCHANGED <<opt, branchesToProcess, idx, logs, warnings, allCommits, displayed,
                 stagingPRBranch, pickIdx, manual,
                 failedCommit, githubToken, remoteUrl>>

\* lines 115-179: the three branches have to exist; then the branches to
\* process are the list, or the feature branch and its sub-branches
ResolveBranches ==
  /\ pc = "exists"
  /\ IF ~HasBranch(opt.featureBranch)
     THEN /\ Exit(1, "feature-not-found")
          /\ calls' = Append(calls, Call("branch -a", <<>>, TRUE))
          /\ UNCHANGED branchesToProcess
     ELSE IF ~HasBranch(opt.stagingBranch)
     THEN /\ Exit(1, "staging-not-found")
          /\ calls' = Append(calls, Call("branch -a", <<>>, TRUE))
          /\ UNCHANGED branchesToProcess
     ELSE IF ~HasBranch(opt.developBranch)
     THEN /\ Exit(1, "develop-not-found")
          /\ calls' = Append(calls, Call("branch -a", <<>>, TRUE))
          /\ UNCHANGED branchesToProcess
     ELSE /\ pc' = "collect"
          /\ calls' = IF opt.branches = None /\ opt.includeSubBranches
                      THEN calls \o <<Call("branch -a", <<>>, TRUE), Call("branch -r", <<>>, TRUE)>>
                      ELSE Append(calls, Call("branch -a", <<>>, TRUE))
          /\ branchesToProcess' = BranchesToProcess(opt)
          /\ UNCHANGED <<exitCode, err>>
  /\ UNCHANGED <<opt, idx, logs, warnings, allCommits, displayed,
                 stagingPRBranch, pickIdx, manual,
                 failedCommit, githubToken, remoteUrl>>

LogFailureEscapes == FALSE

\* the try/catch around the collection of one branch is in place
CatchesLogFailure == TRUE

\* lines 200-253, one iteration: the log of one branch is read and its
\* commits are merged; a log that throws is a warning
CollectBranch ==
  /\ pc = "collect"
  /\ idx <= Len(branchesToProcess)
  /\ LET branch == branchesToProcess[idx] IN
     \E res \in LogResults(opt, branch) :
       /\ calls' = Append(calls, Call("log", branch, res.ok))
       /\ logs' = Append(logs, [branch |-> branch, ok |-> res.ok, hashes |-> res.hashes])
       /\ IF res.ok
          THEN /\ allCommits' = AddUnique(allCommits, BranchCommits(opt, res.hashes, branch))
               /\ idx' = idx + 1
               /\ UNCHANGED <<warnings, pc, exitCode, err>>
          ELSE IF CatchesLogFailure
          THEN /\ warnings' = Append(warnings, branch)
               /\ idx' = idx + 1
               /\ UNCHANGED <<allCommits, pc, exitCode, err>>
          ELSE /\ Throw
               /\ UNCHANGED <<allCommits, warnings, idx>>
  /\ UNCHANGED <<opt, branchesToProcess, displayed, stagingPRBranch, pickIdx, manual,
                 failedCommit, githubToken, remoteUrl>>

NeverEmpty(commits) == FALSE

\* featureCommits.total === 0
IsEmptyChangeset(commits) == Len(commits) = 0

NeverDryRun(o) == FALSE

\* options.dryRun
IsDryRun(o) == o.dryRun

\* lines 255-292: sort, stop on an empty changeset, print the listing newest
\* first, stop on a dry run
SortAndDisplay ==
  /\ pc = "collect"
  /\ idx > Len(branchesToProcess)
  /\ \E sorted \in SortOutcomes(allCommits) :
       /\ allCommits' = sorted
       /\ IF IsEmptyChangeset(sorted)
          THEN Exit(1, "empty") /\ UNCHANGED displayed
          ELSE /\ displayed' = DisplayLines(opt, Reverse(sorted))
               /\ IF IsDryRun(opt) THEN Exit(0, "")
                  ELSE pc' = "checkout" /\ UNCHANGED <<exitCode, err>>
  /\ UNCHANGED <<opt, calls, branchesToProcess, idx, logs, warnings,
                 stagingPRBranch, pickIdx, manual,
                 failedCommit, githubToken, remoteUrl>>

\* lines 294-304: the new branch is created from origin/staging
CreateBranch ==
  /\ pc = "checkout"
  /\ \E now \in NowValues, ok \in BOOLEAN :
       /\ stagingPRBranch' = StagingPRBranch(opt, now)
       /\ calls' = Append(calls, Call("checkout -b", StagingPRBranch(opt, now), ok))
       /\ IF ok THEN pc' = "pick" /\ UNCHANGED <<exitCode, err>>
          ELSE Throw
  /\ UNCHANGED <<opt, branchesToProcess, idx, logs, warnings, allCommits, displayed,
                 pickIdx, manual, failedCommit, githubToken, remoteUrl>>

ContinuesAfterPickFailure == FALSE

\* the catch of the cherry-pick loop ends the process
ExitsOnPickFailure == TRUE

\* lines 311-326, one iteration: one commit is cherry-picked; a failure
\* prints the commit and ends the process
CherryPick ==
  /\ pc = "pick"
  /\ pickIdx <= Len(allCommits)
  /\ \E ok \in BOOLEAN :
       /\ calls' = Append(calls, Call("cherry-pick", allCommits[pickIdx].hash, ok))
       /\ IF ok \/ ~ExitsOnPickFailure
          THEN pickIdx' = pickIdx + 1 /\ UNCHANGED <<pc, exitCode, err, failedCommit>>
          ELSE /\ Exit(1, "cherry-pick")
               /\ failedCommit' = allCommits[pickIdx].hash
               /\ UNCHANGED pickIdx
  /\ UNCHANGED <<opt, branchesToProcess, idx, logs, warnings, allCommits, displayed,
                 stagingPRBranch, manual, githubToken, remoteUrl>>

TokenAssumed(token) == FALSE

\* !githubToken
NoToken(token) == token = None

\* lines 328-345: the branch is pushed; without a token the manual command
\* is printed and the function returns
Push ==
  /\ pc = "pick"
  /\ pickIdx > Len(allCommits)
  /\ \/ /\ calls' = Append(calls, Call("push", stagingPRBranch, FALSE))
        /\ Throw
        /\ UNCHANGED <<manual, githubToken>>
     \/ /\ calls' = Append(calls, Call("push", stagingPRBranch, TRUE))
        /\ \E token \in Tokens :
             /\ githubToken' = token
             /\ IF NoToken(token) THEN Exit(0, "") /\ manual' = "no-token"
                ELSE pc' = "remote" /\ UNCHANGED <<exitCode, err, manual>>
  /\ UNCHANGED <<opt, branchesToProcess, idx, logs, warnings, allCommits, displayed,
                 stagingPRBranch, pickIdx, failedCommit, remoteUrl>>

\* lines 347-360: the remote URL is read and matched; without a match the
\* manual instruction is printed and the function returns
ReadRemote ==
  /\ pc = "remote"
  /\ calls' = Append(calls, Call("getConfig", <<>>, TRUE))
  /\ \E url \in RemoteUrls :
       /\ remoteUrl' = url
       /\ IF ~UrlMatches(url) THEN Exit(0, "") /\ manual' = "no-match"
          ELSE pc' = "create" /\ UNCHANGED <<exitCode, err, manual>>
  /\ UNCHANGED <<opt, branchesToProcess, idx, logs, warnings, allCommits, displayed,
                 stagingPRBranch, pickIdx, failedCommit, githubToken>>

\* lines 362-400: the pull request is requested
CreatePR ==
  /\ pc = "create"
  /\ \E ok \in BOOLEAN :
       /\ calls' = Append(calls, Call("pulls.create", stagingPRBranch, ok))
       /\ IF ok THEN Exit(0, "") ELSE Throw
  /\ UNCHANGED <<opt, branchesToProcess, idx, logs, warnings, allCommits, displayed,
                 stagingPRBranch, pickIdx, manual,
                 failedCommit, githubToken, remoteUrl>>

Next ==
  \/ Start
  \/ CheckStatus
  \/ Fetch
  \/ ResolveBranches
  \/ CollectBranch
  \/ SortAndDisplay
  \/ CreateBranch
  \/ CherryPick
  \/ Push
  \/ ReadRemote
  \/ CreatePR

Spec == Init /\ [][Next]_vars

TypeOK ==
  /\ pc \in {"start", "status", "fetch", "exists", "collect", "checkout", "pick",
             "remote", "create", "done"}
  /\ exitCode \in {0, 1}
  /\ idx \in 1..(Len(branchesToProcess) + 1)
  /\ pickIdx \in 1..(Len(allCommits) + 1)

\* ----------------------------------------------------------- properties
\* the hashes of a list of records
RECURSIVE HashesOf(_)
HashesOf(commits) ==
  IF commits = <<>> THEN <<>> ELSE <<Head(commits).hash>> \o HashesOf(Tail(commits))

\* the calls of one kind, in the order they were made
RECURSIVE CallsOf(_, _)
CallsOf(cs, op) ==
  IF cs = <<>> THEN <<>>
  ELSE IF Head(cs).op = op THEN <<Head(cs)>> \o CallsOf(Tail(cs), op)
  ELSE CallsOf(Tail(cs), op)

RECURSIVE ArgsOf(_)
ArgsOf(cs) == IF cs = <<>> THEN <<>> ELSE <<Head(cs).arg>> \o ArgsOf(Tail(cs))

Made(op) == \E i \in 1..Len(calls) : calls[i].op = op

\* the calls that create a branch, apply a commit, push or open a request
PublishingOps == {"checkout -b", "cherry-pick", "push", "pulls.create"}
NothingPublished == \A i \in 1..Len(calls) : calls[i].op \notin PublishingOps

\* the authored instant of the commit a record stands for
AuthoredAt(hash) == CommitInfo[hash[1]].ts

\* the log of the k-th processed branch succeeded and contains the hash
LogHas(k, hash) == logs[k].ok /\ \E n \in 1..Len(logs[k].hashes) : <<logs[k].hashes[n]>> = hash

CollectionDone == branchesToProcess # <<>> /\ idx > Len(branchesToProcess)

\* C1: the changeset holds each commit hash at most once, and the record of a
\* hash carries the branch of the first processed branch whose log had it
C1_UniqueFirstSeen ==
  /\ \A i, j \in 1..Len(allCommits) :
       allCommits[i].hash = allCommits[j].hash => i = j
  /\ \A i \in 1..Len(allCommits) :
       \E k \in 1..Len(logs) :
         /\ LogHas(k, allCommits[i].hash)
         /\ \A m \in 1..(k - 1) : ~LogHas(m, allCommits[i].hash)
         /\ allCommits[i].branch = logs[k].branch

C1_Witness ==
  /\ pc = "done"
  /\ Len(allCommits) >= 2
  /\ \E k, m \in 1..Len(logs), i \in 1..Len(allCommits) :
       /\ k < m
       /\ logs[k].branch # logs[m].branch
       /\ LogHas(k, allCommits[i].hash)
       /\ LogHas(m, allCommits[i].hash)

\* C2: a dry run never creates a branch, cherry-picks, pushes or requests a
\* pull request
C2_DryRunPublishesNothing == opt.dryRun => NothingPublished

C2_Witness ==
  pc = "done" /\ opt.dryRun /\ exitCode = 0 /\ Len(allCommits) >= 2 /\ displayed # <<>>

\* C3: a feature branch equal to staging or develop ends the run with the
\* configuration error before any fetch, network or branch-creation call:
\* the only call made by then is the local query of the current branch
C3_GuardBeforeNetwork ==
  (pc # "start" /\ opt.featureBranch \in {opt.stagingBranch, opt.developBranch})
    => /\ pc = "done" /\ exitCode = 1 /\ err = "config"
       /\ \A i \in 1..Len(calls) : calls[i].op = "branch"

C3_Witness ==
  pc = "done" /\ err = "config" /\ opt.featureBranch = opt.developBranch

\* C4: an empty merged changeset ends the run with the empty-changeset error
\* and exit code 1, and nothing was created, cherry-picked, pushed or requested
C4_EmptyChangesetFatal ==
  /\ (CollectionDone /\ pc # "collect" /\ allCommits = <<>>)
       => (pc = "done" /\ exitCode = 1 /\ err = "empty" /\ NothingPublished)
  /\ pc \in {"checkout", "pick", "remote", "create"} => allCommits # <<>>

C4_Witness ==
  /\ pc = "done" /\ err = "empty"
  /\ \E k, m \in 1..Len(logs) : ~logs[k].ok /\ logs[m].ok /\ logs[m].hashes = <<>>

C4_WitnessAllFailed ==
  pc = "done" /\ err = "empty" /\ Len(logs) >= 2 /\ \A k \in 1..Len(logs) : ~logs[k].ok

\* the hashes the successful logs answered with
SuccessfulHashes ==
  {h \in {<<x>> : x \in Hashes} : \E k \in 1..Len(logs) : LogHas(k, h)}

FailedLogs == {k \in 1..Len(logs) : ~logs[k].ok}

RECURSIVE FailedBranches(_)
\* the branches of the logs that threw, in processing order
FailedBranches(ls) ==
  IF ls = <<>> THEN <<>>
  ELSE IF Head(ls).ok THEN FailedBranches(Tail(ls))
  ELSE <<Head(ls).branch>> \o FailedBranches(Tail(ls))

\* C5: a branch whose log fails does not end the run: a warning is printed for
\* it, it contributes no commit, and the changeset is exactly the commits of
\* the branches whose log succeeded, each once; the run then goes on
C5_FailedBranchSkipped ==
  /\ err = "exception" => calls[Len(calls)].op # "log"
  /\ Len(warnings) = Cardinality(FailedLogs)
  /\ warnings = FailedBranches(logs)
  /\ \A i \in 1..Len(allCommits) :
       \E k \in 1..Len(logs) :
         LogHas(k, allCommits[i].hash) /\ logs[k].branch = allCommits[i].branch
  /\ Range(HashesOf(allCommits)) = SuccessfulHashes
  /\ Len(allCommits) = Cardinality(SuccessfulHashes)
  /\ (CollectionDone /\ pc = "done" /\ FailedLogs # {} /\ allCommits # <<>>
        /\ calls[Len(calls)].op = "log") => (opt.dryRun /\ exitCode = 0)

C5_Witness ==
  /\ pc = "pick" /\ pickIdx > 1
  /\ FailedLogs # {}
  /\ Len(allCommits) >= 2
  /\ \E k, m \in 1..Len(logs) : k # m /\ logs[k].ok /\ logs[m].ok
       /\ logs[k].hashes # <<>> /\ logs[m].hashes # <<>>

\* the cherry-pick calls made so far
Picks == CallsOf(calls, "cherry-pick")

\* a list of hashes runs oldest-authored first
NonDecreasing(hs) ==
  \A i, j \in 1..Len(hs) : i < j => AuthoredAt(hs[i]) <= AuthoredAt(hs[j])

RECURSIVE DisplayedHashes(_)
DisplayedHashes(lines) ==
  IF lines = <<>> THEN <<>> ELSE <<Head(lines).hash>> \o DisplayedHashes(Tail(lines))

\* C6: commits are cherry-picked oldest-authored first and listed
\* newest-authored first, the listing being the reverse of the applied order,
\* and the listing leaves the changeset as it was
C6_AppliedOldestFirst ==
  /\ NonDecreasing(ArgsOf(Picks))
  /\ displayed # <<>> =>
       /\ DisplayedHashes(displayed) = Reverse(HashesOf(allCommits))
       /\ NonDecreasing(Reverse(DisplayedHashes(displayed)))
  /\ ArgsOf(Picks) = SubSeq(HashesOf(allCommits), 1, Len(Picks))

\* C7: commits are cherry-picked one at a time in changeset order; the first
\* failure ends the run with exit code 1 and names the commit, nothing is
\* attempted after it (no abort, no push, no pull request); the push comes
\* only after every commit of the changeset was cherry-picked
C7_StopAtFirstFailure ==
  /\ ArgsOf(Picks) = SubSeq(HashesOf(allCommits), 1, Len(Picks))
  /\ \A i \in 1..Len(calls) :
       (calls[i].op = "cherry-pick" /\ ~calls[i].ok) =>
         /\ i = Len(calls)
         /\ pc = "done" /\ exitCode = 1 /\ err = "cherry-pick"
         /\ failedCommit = calls[i].arg
         /\ ~Made("push") /\ ~Made("pulls.create")
  /\ \A i \in 1..Len(calls) :
       calls[i].op = "push" =>
         /\ ArgsOf(CallsOf(SubSeq(calls, 1, i - 1), "cherry-pick")) = HashesOf(allCommits)
         /\ \A j \in 1..(i - 1) : calls[j].op = "cherry-pick" => calls[j].ok
  /\ ~Made("cherry-pick --abort")

C7_Witness ==
  /\ pc = "done" /\ err = "cherry-pick"
  /\ Len(Picks) = 2 /\ Len(allCommits) = 3

C7_WitnessPushed == Made("push") /\ Len(allCommits) = 3

\* the first entry of the explicit list
FirstListed == ManualBranches(opt)[1]

\* C8: with an explicit list the branches processed are its trimmed entries
\* and its first entry is the primary feature branch: the one the equality
\* guard and the existence check test, and the one the new branch is named for
C8_ListTakesPriority ==
  (opt.branches # None /\ pc # "start") =>
    /\ branchesToProcess \in {<<>>, ManualBranches(opt)}
    /\ opt.featureBranch = FirstListed
    /\ err = "config" <=> FirstListed \in {opt.stagingBranch, opt.developBranch}
    /\ err = "feature-not-found" => ~HasBranch(FirstListed)
    /\ stagingPRBranch # <<>> =>
         \E now \in NowValues :
           stagingPRBranch = StagingPRBranch([opt EXCEPT !.featureBranch = FirstListed], now)

\* the push returned
Pushed == \E i \in 1..Len(calls) : calls[i].op = "push" /\ calls[i].ok

\* C9: after the push, a missing token or a remote URL that does not parse
\* means no pull-request call, printed manual instructions and exit code 0;
\* the pull-request call is made only with a token and a URL that parses
C9_ManualFallback ==
  /\ Made("pulls.create") => (githubToken # None /\ UrlMatches(remoteUrl))
  /\ (Pushed /\ pc = "done" /\ (githubToken = None \/ ~UrlMatches(remoteUrl))) =>
       /\ ~Made("pulls.create")
       /\ manual # ""
       /\ exitCode = 0 /\ err = ""
  /\ manual # "" => (Pushed /\ pc = "done" /\ exitCode = 0)

C9_Witness ==
  /\ pc = "done" /\ Pushed
  /\ githubToken # None /\ remoteUrl # None /\ ~UrlMatches(remoteUrl)
  /\ manual = "no-match"

C9_WitnessNoToken == pc = "done" /\ Pushed /\ githubToken = None /\ manual = "no-token"

C9_WitnessCreated == Made("pulls.create") /\ pc = "done" /\ exitCode = 0

\* C10: the new branch is named by the fixed prefix, the feature branch name
\* with no '/' of it left, and the creation timestamp
C10_NameSanitized ==
  stagingPRBranch # <<>> =>
    /\ StartsWith(stagingPRBranch, <<"staging-pr-">>)
    /\ \E now \in NowValues :
         /\ Len(stagingPRBranch) = 2 + Len(opt.featureBranch) + Len(Digits(now))
         /\ SubSeq(stagingPRBranch, 3 + Len(opt.featureBranch), Len(stagingPRBranch))
              = Digits(now)
    /\ \A i \in 1..Len(stagingPRBranch) : stagingPRBranch[i] # "/"

\* sub-branch discovery ran: no explicit list, the flag set, branches resolved
Discovered == opt.branches = None /\ opt.includeSubBranches /\ branchesToProcess # <<>>

\* the pattern of the discovery: the option, or the feature branch and '*'
Pattern ==
  IF opt.subBranchPattern # None THEN opt.subBranchPattern
  ELSE opt.featureBranch \o <<"*">>

\* the pattern up to its '*' and after it (a pattern without '*' has no tail)
PatternHead(p) ==
  IF Includes(p, "*")
  THEN SubSeq(p, 1, (CHOOSE n \in 1..Len(p) :
                       p[n] = "*" /\ \A m \in 1..(n - 1) : p[m] # "*") - 1)
  ELSE p

PatternTail(p) ==
  IF Includes(p, "*")
  THEN SubSeq(p, (CHOOSE n \in 1..Len(p) :
                    p[n] = "*" /\ \A m \in 1..(n - 1) : p[m] # "*") + 1, Len(p))
  ELSE <<>>

\* the name matches the pattern read as a glob: the name is the text before
\* the '*', then anything, then the text after it; without '*' the name is
\* the pattern
GlobMatches(p, name) ==
  IF Includes(p, "*")
  THEN /\ StartsWith(name, PatternHead(p))
       /\ Len(name) >= Len(PatternHead(p)) + Len(PatternTail(p))
       /\ SubSeq(name, Len(name) - Len(PatternTail(p)) + 1, Len(name)) = PatternTail(p)
  ELSE name = p

\* C11: in sub-branch discovery a remote branch is a sub-branch exactly when
\* it is not the feature branch and its name starts with the pattern without
\* its wildcard or matches the pattern as a glob; with the default pattern
\* every sub-branch has the feature branch name as a prefix
C11_SubBranchIffGlob ==
  Discovered =>
    /\ \A i \in 1..Len(RemoteBranches) :
         Includes(Tail(branchesToProcess), RemoteBranches[i]) <=>
           /\ RemoteBranches[i] # opt.featureBranch
           /\ \/ StartsWith(RemoteBranches[i], ReplaceFirst(Pattern, "*", <<>>))
              \/ GlobMatches(Pattern, RemoteBranches[i])
    /\ opt.subBranchPattern = None =>
         \A i \in 2..Len(branchesToProcess) :
           StartsWith(branchesToProcess[i], opt.featureBranch)

RECURSIVE IsSubsequence(_, _)
\* the elements of s occur in t in the same order
IsSubsequence(s, t) ==
  IF s = <<>> THEN TRUE
  ELSE IF t = <<>> THEN FALSE
  ELSE IF Head(s) = Head(t) THEN IsSubsequence(Tail(s), Tail(t))
  ELSE IsSubsequence(s, Tail(t))

\* C12: the list of branches commits are collected from has no duplicate and
\* has the primary feature branch first, followed in the discovery case by
\* the sub-branches in the order the remote branches are enumerated
C12_BranchListDuplicateFree ==
  branchesToProcess # <<>> =>
    /\ \A i, j \in 1..Len(branchesToProcess) :
         branchesToProcess[i] = branchesToProcess[j] => i = j
    /\ branchesToProcess[1] = opt.featureBranch
    /\ opt.branches = None => IsSubsequence(Tail(branchesToProcess), RemoteBranches)

\* C12 where no list is given: the feature branch first, then the discovered
\* sub-branches in enumeration order, no name twice
C12_DiscoveryCaseHolds ==
  (branchesToProcess # <<>> /\ opt.branches = None) => C12_BranchListDuplicateFree

====
